---- MODULE Spec2Model ----
(***************************************************************************)
(* Model of the E-waste classification repository:                         *)
(*   - the image script (two CNN variants trained by a manual batch loop), *)
(*   - its two preprocessing functions (adaptive_threshold, sharpen),      *)
(*   - the tabular notebook (label encoding and 80/20 split).              *)
(* Three specifications share the module: Spec (the image script),         *)
(* SpecPre (the preprocessing functions) and SpecTab (the notebook).       *)
(***************************************************************************)
EXTENDS Integers, Sequences, FiniteSets

VARIABLES
    \* ---- image script ----
    pc,                \* position in the script
    files,             \* files[c]: number of images in class directory c
    num_classes,       \* len(next(os.walk(DATASET_DIR))[1])
    gen,               \* the four DirectoryIterators: n, shuffle, batch_index, total_batches_seen
    steps,             \* steps_train_bin, steps_test_bin, steps_train_sharp, steps_test_sharp
    weights,           \* per model: number of gradient updates applied so far
    saved,             \* per model: weights written to the .h5 file (-1: not saved)
    hist,              \* the eight metric lists
    epoch, step,       \* loop variables
    epoch_train_loss, epoch_train_acc, val_acc, val_loss,   \* per-epoch accumulators
    batch,             \* provenance of the current batch_x
    acc_final,         \* acc_bin, acc_sharp
    printed,           \* final accuracies printed
    plotted,           \* what plt.plot was given
    \* ---- preprocessing functions ----
    img, out, applied,
    \* ---- tabular notebook ----
    csv,               \* the Category column of the CSV file, as stored
    tpc, Category, classes_, ind_train, ind_test

pipeVars == <<pc, files, num_classes, gen, steps, weights, saved, hist, epoch, step,
              epoch_train_loss, epoch_train_acc, val_acc, val_loss, batch,
              acc_final, printed, plotted>>
preVars  == <<img, out, applied>>
tabVars  == <<csv, tpc, Category, classes_, ind_train, ind_test>>
vars     == <<pipeVars, preVars, tabVars>>

\* ------------------------------------------------------------------------
\* Program constants
\* ------------------------------------------------------------------------
BATCH_SIZE == 32
EPOCHS == 40

\* ------------------------------------------------------------------------
\* Bounds of the model
\* ------------------------------------------------------------------------
MaxClasses == 3      \* class directories under DATASET_DIR
MaxTens == 12        \* images per class directory: 10*j and 10*j + 7, j <= MaxTens
MaxDim == 2          \* preprocessing: image height and width
MaxRows == 4         \* tabular: rows of the CSV (besides the 100-row scenario)

Variants == {"bin", "sharp"}
Min(a, b) == IF a < b THEN a ELSE b

\* ------------------------------------------------------------------------
\* Data generators (keras DirectoryIterator as configured by the script)
\* ------------------------------------------------------------------------
ImageCounts == {10 * j + r : j \in 1..MaxTens, r \in {0, 7}}

\* validation_split=0.2: per class directory the first int(0.2 * m) files are
\* the validation subset, the remaining ones the training subset.
ValidationFiles(m) == (2 * m) \div 10
TrainingFiles(m) == m - ValidationFiles(m)

RECURSIVE SumOver(_, _)
SumOver(f, S) == IF S = {} THEN 0
                 ELSE LET x == CHOOSE y \in S : TRUE IN f[x] + SumOver(f, S \ {x})

Samples(fl, subset) ==
    SumOver([c \in DOMAIN fl |-> IF subset = "validation" THEN ValidationFiles(fl[c])
                                                       ELSE TrainingFiles(fl[c])],
            DOMAIN fl)

\* flow_from_directory(DATASET_DIR, subset=..., shuffle=...)
flow_from_directory(fl, subset, shuffle) ==
    [n |-> Samples(fl, subset), shuffle |-> shuffle,
     batch_index |-> 0, total_batches_seen |-> 0]

TrainGen(v) == IF v = "bin" THEN "train_gen_bin" ELSE "train_gen_sharp"
\* Variant of TestGen: the sharpen loops pull from the binary validation generator.
TestGenCopyPaste(v) == "test_gen_bin"
TestGen(v) == IF v = "bin" THEN "test_gen_bin" ELSE "test_gen_sharp"
GenNames == {"train_gen_bin", "test_gen_bin", "train_gen_sharp", "test_gen_sharp"}

PreprocessFunc(v) == IF v = "bin" THEN "adaptive_threshold" ELSE "sharpen"

\* steps_* = gen.samples // BATCH_SIZE
\* Variant of StepsOf: the step count rounded up instead of down.
StepsOfCeil(g) == (g.n + BATCH_SIZE - 1) \div BATCH_SIZE
StepsOf(g) == g.n \div BATCH_SIZE

\* Iterator._flow_index: one pull. The batch is the slice
\* index_array[current_index : current_index + batch_size]; the iterator then
\* advances batch_index, wrapping to 0 after the last (possibly partial) batch
\* of a pass. index_array is 0..n-1 for shuffle=False; for shuffle=True it is
\* permuted anew at the start of each pass, and start and size are positions
\* in the permuted array.
CurrentIndex(g) == IF g.n = 0 THEN 0 ELSE (g.batch_index * BATCH_SIZE) % g.n
NextBatch(name, g) ==
    [gen |-> name, start |-> CurrentIndex(g),
     size |-> Min(BATCH_SIZE, g.n - CurrentIndex(g)), func |-> "none"]
Advance(g) ==
    [g EXCEPT !.batch_index = IF g.n > CurrentIndex(g) + BATCH_SIZE
                              THEN g.batch_index + 1 ELSE 0,
              !.total_batches_seen = g.total_batches_seen + 1]
\* Iterator.reset
ResetGen(g) == [g EXCEPT !.batch_index = 0]

\* preprocess_batch(batch_x, preprocess_func)
preprocess_batch(b, f) == [b EXCEPT !.func = f]

\* model.train_on_batch / model.test_on_batch return (loss, acc): the metrics of
\* the model's current weights on the batch. A metric is kept symbolically.
Metric(kind, w, b) == [metric |-> kind, w |-> w, b |-> b]
\* The effect of one call on the model's weights: train_on_batch applies one
\* gradient update, test_on_batch none.
train_on_batch(w) == w + 1
\* Variant of test_on_batch: evaluation that also updates the weights.
test_on_batch_updates(w) == w + 1
test_on_batch(w) == w

\* np.mean of a list: nan for the empty list.
np_mean(xs) == [nan |-> xs = <<>>, of |-> xs]

EmptyHist == [train_loss |-> <<>>, val_loss |-> <<>>, train_acc |-> <<>>, val_acc |-> <<>>]
NoBatch == [gen |-> "none", start |-> 0, size |-> 0, func |-> "none"]

Init ==
    /\ \E k \in 1..MaxClasses, m \in ImageCounts : files = [c \in 1..k |-> m]
    /\ num_classes = Cardinality(DOMAIN files)
    /\ gen = [name \in GenNames |->
                flow_from_directory(files,
                    IF name \in {"train_gen_bin", "train_gen_sharp"} THEN "training"
                                                                      ELSE "validation",
                    name \in {"train_gen_bin", "train_gen_sharp"})]
    /\ steps = [name \in GenNames |-> StepsOf(gen[name])]
    /\ weights = [v \in Variants |-> 0]
    /\ saved = [v \in Variants |-> -1]
    /\ hist = [v \in Variants |-> EmptyHist]
    /\ pc = "bin_train"
    /\ epoch = 0 /\ step = 0
    /\ epoch_train_loss = <<>> /\ epoch_train_acc = <<>>
    /\ val_acc = <<>> /\ val_loss = <<>>
    /\ batch = NoBatch
    /\ acc_final = [v \in Variants |-> <<>>]
    /\ printed = [v \in Variants |-> [shown |-> FALSE, value |-> np_mean(<<>>)]]
    /\ plotted = <<>>
    /\ img = <<>> /\ out = <<>> /\ applied = "none"
    /\ csv = <<>> /\ tpc = "idle" /\ Category = <<>> /\ classes_ = <<>>
    /\ ind_train = <<>> /\ ind_test = <<>>

\* ------------------------------------------------------------------------
\* The script's control flow
\* ------------------------------------------------------------------------
TrainPc(v) == IF v = "bin" THEN "bin_train" ELSE "sharp_train"
ValPc(v) == IF v = "bin" THEN "bin_val" ELSE "sharp_val"
SavePc(v) == IF v = "bin" THEN "save_bin" ELSE "save_sharp"
ResetPc(v) == IF v = "bin" THEN "reset_bin" ELSE "reset_sharp"
EvalBeginPc(v) == IF v = "bin" THEN "eval_bin_begin" ELSE "eval_sharp_begin"
EvalPc(v) == IF v = "bin" THEN "eval_bin" ELSE "eval_sharp"

\* for epoch in range(EPOCHS): the iteration with loop variable e is the last one
\* Variant of LastEpoch: a loop that stops one epoch early.
LastEpochOffByOne(e) == e + 1 >= EPOCHS - 1
LastEpoch(e) == e + 1 >= EPOCHS

\* The statement that follows each loop or statement of the script.
\* Variant of Following: the final evaluation placed before the saves.
FollowingEvalFirst(p) ==
    CASE p = "bin_loop" -> "sharp_train"
      [] p = "sharp_loop" -> "reset_bin"
      [] p = "reset_bin" -> "reset_sharp"
      [] p = "reset_sharp" -> "eval_bin_begin"
      [] p = "eval_bin" -> "eval_sharp_begin"
      [] p = "eval_sharp" -> "save_bin"
      [] p = "save_bin" -> "save_sharp"
      [] p = "save_sharp" -> "plot"
      [] p = "plot" -> "done"
Following(p) ==
    CASE p = "bin_loop" -> "sharp_train"
      [] p = "sharp_loop" -> "save_bin"
      [] p = "save_bin" -> "save_sharp"
      [] p = "save_sharp" -> "reset_bin"
      [] p = "reset_bin" -> "reset_sharp"
      [] p = "reset_sharp" -> "eval_bin_begin"
      [] p = "eval_bin" -> "eval_sharp_begin"
      [] p = "eval_sharp" -> "plot"
      [] p = "plot" -> "done"
LoopName(v) == IF v = "bin" THEN "bin_loop" ELSE "sharp_loop"

preUnch == UNCHANGED <<preVars, tabVars>>

\* One iteration of "for step in range(steps_train_*)".
TrainStep(v) ==
    /\ pc = TrainPc(v)
    /\ step < steps[TrainGen(v)]
    /\ LET b == preprocess_batch(NextBatch(TrainGen(v), gen[TrainGen(v)]),
                                 PreprocessFunc(v))
       IN /\ gen' = [gen EXCEPT ![TrainGen(v)] = Advance(@)]
          /\ batch' = b
          /\ epoch_train_loss' = Append(epoch_train_loss, Metric("loss", weights[v], b))
          /\ epoch_train_acc' = Append(epoch_train_acc, Metric("acc", weights[v], b))
          /\ weights' = [weights EXCEPT ![v] = train_on_batch(@)]
    /\ step' = step + 1
    /\ UNCHANGED <<pc, files, num_classes, steps, saved, hist, epoch, val_acc, val_loss,
                   acc_final, printed, plotted>>
    /\ preUnch

\* After the training steps: append the epoch's means, start the validation loop.
TrainEnd(v) ==
    /\ pc = TrainPc(v)
    /\ step >= steps[TrainGen(v)]
    /\ hist' = [hist EXCEPT ![v].train_loss = Append(@, np_mean(epoch_train_loss)),
                            ![v].train_acc = Append(@, np_mean(epoch_train_acc))]
    /\ val_acc' = <<>>
    /\ val_loss' = <<>>
    /\ step' = 0
    /\ pc' = ValPc(v)
    /\ UNCHANGED <<files, num_classes, gen, steps, weights, saved, epoch,
                   epoch_train_loss, epoch_train_acc, batch, acc_final, printed, plotted>>
    /\ preUnch

\* One iteration of "for step in range(steps_test_*)" inside the epoch.
ValStep(v) ==
    /\ pc = ValPc(v)
    /\ step < steps[TestGen(v)]
    /\ LET b == preprocess_batch(NextBatch(TestGen(v), gen[TestGen(v)]),
                                 PreprocessFunc(v))
       IN /\ gen' = [gen EXCEPT ![TestGen(v)] = Advance(@)]
          /\ batch' = b
          /\ val_acc' = Append(val_acc, Metric("acc", weights[v], b))
          /\ val_loss' = Append(val_loss, Metric("loss", weights[v], b))
          /\ weights' = [weights EXCEPT ![v] = test_on_batch(@)]
    /\ step' = step + 1
    /\ UNCHANGED <<pc, files, num_classes, steps, saved, hist, epoch,
                   epoch_train_loss, epoch_train_acc, acc_final, printed, plotted>>
    /\ preUnch

\* After the validation steps: append the epoch's validation means, print, and
\* go on to the next epoch or leave the loop.
ValEnd(v) ==
    /\ pc = ValPc(v)
    /\ step >= steps[TestGen(v)]
    /\ hist' = [hist EXCEPT ![v].val_loss = Append(@, np_mean(val_loss)),
                            ![v].val_acc = Append(@, np_mean(val_acc))]
    /\ step' = 0
    /\ IF LastEpoch(epoch)
       THEN /\ pc' = Following(LoopName(v))
            /\ epoch' = IF Following(LoopName(v)) \in {"bin_train", "sharp_train"}
                        THEN 0 ELSE epoch
       ELSE /\ pc' = TrainPc(v)
            /\ epoch' = epoch + 1
    /\ IF pc' \in {"bin_train", "sharp_train"}
       THEN epoch_train_loss' = <<>> /\ epoch_train_acc' = <<>>
       ELSE UNCHANGED <<epoch_train_loss, epoch_train_acc>>
    /\ UNCHANGED <<files, num_classes, gen, steps, weights, saved, val_acc, val_loss,
                   batch, acc_final, printed, plotted>>
    /\ preUnch

\* model_*.save('model_*.h5')
SaveModel(v) ==
    /\ pc = SavePc(v)
    /\ saved' = [saved EXCEPT ![v] = weights[v]]
    /\ pc' = Following(pc)
    /\ UNCHANGED <<files, num_classes, gen, steps, weights, hist, epoch, step,
                   epoch_train_loss, epoch_train_acc, val_acc, val_loss, batch,
                   acc_final, printed, plotted>>
    /\ preUnch

\* test_gen_*.reset()
Reset(v) ==
    /\ pc = ResetPc(v)
    /\ gen' = [gen EXCEPT ![TestGen(v)] = ResetGen(@)]
    /\ pc' = Following(pc)
    /\ UNCHANGED <<files, num_classes, steps, weights, saved, hist, epoch, step,
                   epoch_train_loss, epoch_train_acc, val_acc, val_loss, batch,
                   acc_final, printed, plotted>>
    /\ preUnch

\* acc_* = []
EvalBegin(v) ==
    /\ pc = EvalBeginPc(v)
    /\ acc_final' = [acc_final EXCEPT ![v] = <<>>]
    /\ step' = 0
    /\ pc' = EvalPc(v)
    /\ UNCHANGED <<files, num_classes, gen, steps, weights, saved, hist, epoch,
                   epoch_train_loss, epoch_train_acc, val_acc, val_loss, batch,
                   printed, plotted>>
    /\ preUnch

\* One iteration of the final evaluation loop.
EvalStep(v) ==
    /\ pc = EvalPc(v)
    /\ step < steps[TestGen(v)]
    /\ LET b == preprocess_batch(NextBatch(TestGen(v), gen[TestGen(v)]),
                                 PreprocessFunc(v))
       IN /\ gen' = [gen EXCEPT ![TestGen(v)] = Advance(@)]
          /\ batch' = b
          /\ acc_final' = [acc_final EXCEPT ![v] = Append(@, Metric("acc", weights[v], b))]
          /\ weights' = [weights EXCEPT ![v] = test_on_batch(@)]
    /\ step' = step + 1
    /\ UNCHANGED <<pc, files, num_classes, steps, saved, hist, epoch,
                   epoch_train_loss, epoch_train_acc, val_acc, val_loss, printed, plotted>>
    /\ preUnch

\* print(f"...: {np.mean(acc_*):.4f}")
EvalEnd(v) ==
    /\ pc = EvalPc(v)
    /\ step >= steps[TestGen(v)]
    /\ printed' = [printed EXCEPT ![v] = [shown |-> TRUE, value |-> np_mean(acc_final[v])]]
    /\ pc' = Following(pc)
    /\ UNCHANGED <<files, num_classes, gen, steps, weights, saved, hist, epoch, step,
                   epoch_train_loss, epoch_train_acc, val_acc, val_loss, batch,
                   acc_final, plotted>>
    /\ preUnch

\* The 2x2 grid of plots reads the eight lists.
Plot ==
    /\ pc = "plot"
    /\ plotted' = <<hist>>
    /\ pc' = Following(pc)
    /\ UNCHANGED <<files, num_classes, gen, steps, weights, saved, hist, epoch, step,
                   epoch_train_loss, epoch_train_acc, val_acc, val_loss, batch,
                   acc_final, printed>>
    /\ preUnch

Next ==
    \/ \E v \in Variants : TrainStep(v)
    \/ \E v \in Variants : TrainEnd(v)
    \/ \E v \in Variants : ValStep(v)
    \/ \E v \in Variants : ValEnd(v)
    \/ \E v \in Variants : SaveModel(v)
    \/ \E v \in Variants : Reset(v)
    \/ \E v \in Variants : EvalBegin(v)
    \/ \E v \in Variants : EvalStep(v)
    \/ \E v \in Variants : EvalEnd(v)
    \/ Plot


Spec == Init /\ [][Next]_vars

\* ========================================================================
\* Properties of the image script (specification Spec)
\* ========================================================================
ListKinds == {"train_loss", "train_acc", "val_loss", "val_acc"}
TrainLens(v) == <<Len(hist[v].train_loss), Len(hist[v].train_acc)>>
ValLens(v) == <<Len(hist[v].val_loss), Len(hist[v].val_acc)>>
AllLens(v, k) == TrainLens(v) = <<k, k>> /\ ValLens(v) = <<k, k>>
BinLoopPcs == {"bin_train", "bin_val"}
SharpLoopPcs == {"sharp_train", "sharp_val"}

\* C1: each variant's four metric lists start empty, hold one entry per
\* completed epoch of that variant's loop (the two training lists get theirs
\* in the middle of the epoch, before its validation steps), hold exactly
\* EPOCHS entries once the loop is over, and do not change outside the loop.
C1_MetricListLengths ==
    /\ pc = "bin_train" => AllLens("bin", epoch) /\ AllLens("sharp", 0)
    /\ pc = "bin_val" => /\ TrainLens("bin") = <<epoch + 1, epoch + 1>>
                         /\ ValLens("bin") = <<epoch, epoch>>
                         /\ AllLens("sharp", 0)
    /\ pc = "sharp_train" => AllLens("sharp", epoch) /\ AllLens("bin", EPOCHS)
    /\ pc = "sharp_val" => /\ TrainLens("sharp") = <<epoch + 1, epoch + 1>>
                           /\ ValLens("sharp") = <<epoch, epoch>>
                           /\ AllLens("bin", EPOCHS)
    /\ pc \notin BinLoopPcs \cup SharpLoopPcs => AllLens("bin", EPOCHS) /\ AllLens("sharp", EPOCHS)

C1_Witness ==
    /\ pc = "done"
    /\ \A v \in Variants : AllLens(v, 40)
    /\ weights["bin"] > 0

\* C2: every epoch pulls floor(samples / 32) training batches and
\* floor(samples / 32) validation batches; with 2 classes of 50 images the
\* subsets hold 80 and 20 samples, the step counts are 2 and 0, every
\* validation entry is the mean of an empty list, and the script still runs on.
ValEntries(v) == {hist[v].val_loss[e] : e \in DOMAIN hist[v].val_loss}
                 \cup {hist[v].val_acc[e] : e \in DOMAIN hist[v].val_acc}
TrainEntries(v) == {hist[v].train_loss[e] : e \in DOMAIN hist[v].train_loss}
                   \cup {hist[v].train_acc[e] : e \in DOMAIN hist[v].train_acc}
Scenario2x50 == files = [c \in 1..2 |-> 50]

C2_StepsPerEpoch ==
    /\ \A name \in GenNames : steps[name] = gen[name].n \div 32
    /\ \A v \in Variants :
         /\ \A m \in TrainEntries(v) : Len(m.of) = gen[TrainGen(v)].n \div 32
         /\ \A m \in ValEntries(v) : Len(m.of) = gen[TestGen(v)].n \div 32
    /\ Scenario2x50 =>
         /\ \A v \in Variants :
              /\ gen[TrainGen(v)].n = 80 /\ gen[TestGen(v)].n = 20
              /\ steps[TrainGen(v)] = 2 /\ steps[TestGen(v)] = 0
              /\ \A m \in ValEntries(v) : m.nan
              /\ \A m \in TrainEntries(v) : ~m.nan /\ Len(m.of) = 2
         /\ pc # "done" => ENABLED Next

C2_Witness ==
    /\ Scenario2x50
    /\ pc = "done"
    /\ \A v \in Variants : Len(hist[v].val_loss) = 40 /\ \A m \in ValEntries(v) : m.nan

\* C6 (as claimed): the final evaluation of each model evaluates every sample
\* of its validation subset exactly once.
Covers(m, i) == m.b.start <= i /\ i < m.b.start + m.b.size
TimesEvaluated(ms, i) == Cardinality({k \in DOMAIN ms : Covers(ms[k], i)})
C6_FinalEvalCoversValidationSet ==
    \A v \in Variants :
        printed[v].shown =>
            \A i \in 0..(gen[TestGen(v)].n - 1) : TimesEvaluated(printed[v].value.of, i) = 1

\* C7: the phases run in one order: the binary loop (in each epoch all training
\* steps, then all validation steps) ends before the sharpen variant's first
\* training step; the models are saved after the sharpen loop; the final
\* evaluation starts after both saves; plotting starts after both evaluations.
SharpStarted == weights["sharp"] > 0 \/ gen["train_gen_sharp"].total_batches_seen > 0
                \/ hist["sharp"] # EmptyHist \/ pc \in SharpLoopPcs
EvalStarted == \E v \in Variants : acc_final[v] # <<>> \/ printed[v].shown
                                   \/ pc \in {EvalBeginPc(v), EvalPc(v)}
C7_PhaseOrder ==
    /\ SharpStarted => AllLens("bin", EPOCHS)
    /\ \A v \in Variants :
         /\ pc = ValPc(v) => Len(epoch_train_loss) = steps[TrainGen(v)]
         /\ pc = TrainPc(v) => Len(hist[v].val_loss) = epoch /\ Len(hist[v].train_loss) = epoch
         /\ saved[v] # -1 => AllLens("sharp", EPOCHS)
    /\ saved["sharp"] # -1 => saved["bin"] # -1
    /\ EvalStarted => \A v \in Variants : saved[v] # -1
    /\ printed["sharp"].shown => printed["bin"].shown
    /\ (plotted # <<>> \/ pc \in {"plot", "done"}) => \A v \in Variants : printed[v].shown

C7_Witness ==
    /\ pc = "done"
    /\ plotted # <<>>
    /\ \A v \in Variants : saved[v] > 0 /\ printed[v].shown /\ acc_final[v] # <<>>

\* C8: a model gets one gradient update per training batch pulled and no
\* other; at the save it has had EPOCHS * floor(training samples / 32)
\* updates, and the final evaluation measures the saved weights.
C8_OneUpdatePerTrainingBatch ==
    \A v \in Variants :
        /\ weights[v] = gen[TrainGen(v)].total_batches_seen
        /\ saved[v] # -1 =>
             /\ saved[v] = EPOCHS * (gen[TrainGen(v)].n \div BATCH_SIZE)
             /\ weights[v] = saved[v]
             /\ \A k \in DOMAIN acc_final[v] : acc_final[v][k].w = saved[v]

C8_Witness ==
    /\ pc = "done"
    /\ \A v \in Variants : saved[v] > 0 /\ Len(acc_final[v]) > 0
                           /\ gen[TestGen(v)].total_batches_seen > Len(acc_final[v])

\* C9: no step of one variant changes the other variant's model, generators or
\* metric lists, and every batch is preprocessed with its own variant's function
\* (adaptive_threshold for binary, sharpen for sharpen).
OwnState(v) == <<weights[v], saved[v], gen[TrainGen(v)], gen[TestGen(v)], hist[v]>>
StepPcs(v) == {TrainPc(v), ValPc(v), SavePc(v), ResetPc(v), EvalBeginPc(v), EvalPc(v)}
Other(v) == IF v = "bin" THEN "sharp" ELSE "bin"
OwnFunction(v) == IF v = "bin" THEN "adaptive_threshold" ELSE "sharpen"
OwnGenerators(v) == IF v = "bin" THEN {"train_gen_bin", "test_gen_bin"}
                    ELSE {"train_gen_sharp", "test_gen_sharp"}
C9_NoCrossVariantMutation ==
    [][\A v \in Variants :
          pc \in StepPcs(v) =>
              /\ OwnState(Other(v))' = OwnState(Other(v))
              /\ batch' # batch => /\ batch'.func = OwnFunction(v)
                                   /\ batch'.gen \in OwnGenerators(v)]_vars

C9_Witness ==
    /\ pc = "eval_sharp"
    /\ batch.func = "sharpen" /\ batch.gen = "test_gen_sharp"
    /\ Len(acc_final["sharp"]) > 0
    /\ Len(acc_final["bin"]) > 0

\* C10 (as claimed): in every epoch the validation loop begins at the first
\* batch of the validation subset and pulls the same batches as in epoch 1.
BatchesOf(m) == [i \in DOMAIN m.of |-> <<m.of[i].b.start, m.of[i].b.size>>]
C10_SameValidationBatchesEveryEpoch ==
    \A v \in Variants : \A e \in DOMAIN hist[v].val_acc :
        /\ BatchesOf(hist[v].val_acc[e]) = BatchesOf(hist[v].val_acc[1])
        /\ Len(hist[v].val_acc[e].of) > 0 => hist[v].val_acc[e].of[1].b.start = 0

\* ========================================================================
\* The preprocessing functions on 8-bit 3-channel images (SpecPre)
\* ========================================================================
\* An image is [h, w, px]: px maps <<row, column>> (from 0) to a pixel, which
\* is <<b, g, r>> for a 3-channel image and a number for a 1-channel image.
Pixels(h, w) == (0..(h - 1)) \X (0..(w - 1))
Palette == {<<0, 0, 0>>, <<255, 255, 255>>, <<90, 30, 200>>}
UniformImage(h, w, p) == [h |-> h, w |-> w, px |-> [rc \in Pixels(h, w) |-> p]]
InputImages ==
    UNION {{[h |-> h, w |-> w, px |-> f] : f \in [Pixels(h, w) -> Palette]}
              \cup {UniformImage(h, w, <<v, v, v>>) : v \in 0..255}
           : h \in 1..MaxDim, w \in 1..MaxDim}

\* saturate_cast<uchar>
saturate_cast(x) == IF x < 0 THEN 0 ELSE IF x > 255 THEN 255 ELSE x

\* cv::borderInterpolate for BORDER_REFLECT_101 (filter2D's default border)
\* and for BORDER_REPLICATE (adaptiveThreshold's).
borderReflect101(q, len) ==
    IF len = 1 THEN 0
    ELSE IF q < 0 THEN -q
    ELSE IF q >= len THEN 2 * len - 2 - q
    ELSE q
borderReplicate(q, len) == IF q < 0 THEN 0 ELSE IF q >= len THEN len - 1 ELSE q

\* kernel = np.array([[0,-1,0],[-1,5,-1],[0,-1,0]])
\* Variant of kernel: centre weight 4, so the weights sum to 0.
kernel_sum_zero == <<<<0, -1, 0>>, <<-1, 4, -1>>, <<0, -1, 0>>>>
kernel == <<<<0, -1, 0>>, <<-1, 5, -1>>, <<0, -1, 0>>>>
Taps3 == (0..2) \X (0..2)

\* cv2.filter2D(img, -1, k): correlation with the 3x3 kernel anchored at its
\* centre, per channel, the result saturated to 8 bits.
filter2D(im, k) ==
    [im EXCEPT !.px =
        [rc \in Pixels(im.h, im.w) |->
            [ch \in 1..3 |->
                saturate_cast(
                    SumOver([t \in Taps3 |->
                                k[t[1] + 1][t[2] + 1]
                                * im.px[<<borderReflect101(rc[1] + t[1] - 1, im.h),
                                          borderReflect101(rc[2] + t[2] - 1, im.w)>>][ch]],
                            Taps3))]]]

sharpen(im) == filter2D(im, kernel)

\* cv2.cvtColor(img, cv2.COLOR_BGR2GRAY): fixed-point BT.601 weights, 15 bits.
BGR2GRAY(im) ==
    [im EXCEPT !.px =
        [rc \in Pixels(im.h, im.w) |->
            (im.px[rc][1] * 3735 + im.px[rc][2] * 19235 + im.px[rc][3] * 9798 + 16384)
                \div 32768]]
\* cv2.cvtColor(img, cv2.COLOR_GRAY2BGR)
GRAY2BGR(im) ==
    [im EXCEPT !.px = [rc \in Pixels(im.h, im.w) |-> <<im.px[rc], im.px[rc], im.px[rc]>>]]

\* The 11-tap Gaussian of sigma 0.3*((11-1)*0.5 - 1) + 0.8 = 2, exp(-x^2/8) for
\* x = -5..5, in hundredths (the blur divides by the weights' sum).
GaussianKernel == <<4, 14, 32, 61, 88, 100, 88, 61, 32, 14, 4>>
KernelSum == SumOver(GaussianKernel, DOMAIN GaussianKernel)

\* GaussianBlur(src, (blockSize, blockSize), BORDER_REPLICATE), rounded to 8 bits:
\* a row pass, then a column pass.
GaussianBlur(g, blockSize) ==
    LET half == blockSize \div 2
        rows == [rc \in Pixels(g.h, g.w) |->
                    SumOver([t \in 1..blockSize |->
                                GaussianKernel[t]
                                * g.px[<<rc[1], borderReplicate(rc[2] + t - 1 - half, g.w)>>]],
                            1..blockSize)]
    IN [g EXCEPT !.px =
          [rc \in Pixels(g.h, g.w) |->
              (SumOver([t \in 1..blockSize |->
                           GaussianKernel[t]
                           * rows[<<borderReplicate(rc[1] + t - 1 - half, g.h), rc[2]>>]],
                       1..blockSize)
               + (KernelSum * KernelSum) \div 2) \div (KernelSum * KernelSum)]]

\* cv2.adaptiveThreshold(gray, maxValue, ADAPTIVE_THRESH_GAUSSIAN_C,
\*                       THRESH_BINARY, blockSize, C)
adaptiveThreshold(g, maxValue, blockSize, C) ==
    LET mean == GaussianBlur(g, blockSize)
    IN [g EXCEPT !.px =
          [rc \in Pixels(g.h, g.w) |->
              IF g.px[rc] - mean.px[rc] > -C THEN saturate_cast(maxValue) ELSE 0]]

\* Variant of adaptive_threshold: the grey image returned instead of bin_img.
adaptive_threshold_returns_gray(im) == GRAY2BGR(BGR2GRAY(im))
adaptive_threshold(im) == GRAY2BGR(adaptiveThreshold(BGR2GRAY(im), 255, 11, 2))

PipeOff ==
    /\ pc = "off" /\ files = <<>> /\ num_classes = 0
    /\ gen = <<>> /\ steps = <<>> /\ weights = <<>> /\ saved = <<>> /\ hist = <<>>
    /\ epoch = 0 /\ step = 0
    /\ epoch_train_loss = <<>> /\ epoch_train_acc = <<>>
    /\ val_acc = <<>> /\ val_loss = <<>>
    /\ batch = NoBatch /\ acc_final = <<>> /\ printed = <<>> /\ plotted = <<>>
TabOff ==
    /\ csv = <<>> /\ tpc = "idle" /\ Category = <<>> /\ classes_ = <<>>
    /\ ind_train = <<>> /\ ind_test = <<>>

InitPre ==
    /\ img \in InputImages
    /\ out = <<>>
    /\ applied = "none"
    /\ PipeOff /\ TabOff

\* preprocess_func(img) with preprocess_func = sharpen
ApplySharpen ==
    /\ applied = "none"
    /\ out' = sharpen(img)
    /\ applied' = "sharpen"
    /\ UNCHANGED <<img, pipeVars, tabVars>>

\* preprocess_func(img) with preprocess_func = adaptive_threshold
ApplyThreshold ==
    /\ applied = "none"
    /\ out' = adaptive_threshold(img)
    /\ applied' = "adaptive_threshold"
    /\ UNCHANGED <<img, pipeVars, tabVars>>

NextPre == ApplySharpen \/ ApplyThreshold
SpecPre == InitPre /\ [][NextPre]_vars

IsUniform(im) == \A a, b \in DOMAIN im.px : im.px[a] = im.px[b]

\* C3: sharpen returns every uniform (flat-colour) image unchanged, in every
\* pixel and channel, border pixels included, with the same dimensions.
C3_SharpenFixesUniformImages ==
    (applied = "sharpen" /\ IsUniform(img)) => out = img

C3_Witness ==
    /\ applied = "sharpen"
    /\ img = UniformImage(2, 2, <<90, 30, 200>>)
    /\ out = img

\* C4: adaptive_threshold returns an image of the input's height and width
\* with 3 channels, every value 0 or 255, the three channels of a pixel equal.
C4_ThresholdIsBinaryReplicated ==
    applied = "adaptive_threshold" =>
        /\ out.h = img.h /\ out.w = img.w
        /\ DOMAIN out.px = DOMAIN img.px
        /\ \A rc \in DOMAIN out.px :
              /\ DOMAIN out.px[rc] = 1..3
              /\ out.px[rc][1] \in {0, 255}
              /\ out.px[rc][2] = out.px[rc][1]
              /\ out.px[rc][3] = out.px[rc][1]

C4_Witness ==
    /\ applied = "adaptive_threshold"
    /\ img.h = 2 /\ img.w = 2
    /\ \E a, b \in DOMAIN out.px : out.px[a] = <<0, 0, 0>> /\ out.px[b] = <<255, 255, 255>>
\* ========================================================================
\* The tabular notebook: label encoding and the 80/20 split (SpecTab)
\* ========================================================================
\* The category strings, in the order Python compares them.
CategoryNames == <<"High", "Low", "Medium">>
NameSet == {CategoryNames[i] : i \in DOMAIN CategoryNames}
Rows(col) == DOMAIN col
Distinct(col) == {col[i] : i \in DOMAIN col}

\* The columns read by pd.read_csv: every column of 2..MaxRows rows, and
\* columns of 100 rows in which the three names alternate.
Columns ==
    UNION {[0..(n - 1) -> NameSet] : n \in 2..MaxRows}
    \cup {[i \in 0..99 |-> CategoryNames[((a * i + b) % 3) + 1]] : a \in {1, 2}, b \in 0..2}

\* np.unique(y): the distinct values, sorted.
np_unique(col) == SelectSeq(CategoryNames, LAMBDA s : s \in Distinct(col))
IndexOf(seq, x) == CHOOSE i \in DOMAIN seq : seq[i] = x

\* LabelEncoder().fit_transform(y): classes_ = np.unique(y), and each value is
\* replaced by its position in classes_.
\* Variant of fit_transform: codes from a fixed table of all names.
fit_transform_fixed_table(col) ==
    [classes |-> np_unique(col),
     codes |-> [i \in DOMAIN col |-> IndexOf(CategoryNames, col[i]) - 1]]
fit_transform(col) ==
    [classes |-> np_unique(col),
     codes |-> [i \in DOMAIN col |-> IndexOf(np_unique(col), col[i]) - 1]]

\* train_test_split(test_size=0.2): n_test = ceil(0.2 * n), n_train = n - n_test.
\* (0.2 * n rounds as the exact product for the row counts of Columns.)
n_test(n) == (2 * n + 9) \div 10
n_train(n) == n - n_test(n)

\* rng.permutation(n) for random_state=42 is one fixed permutation of
\* 0..n-1 that the model does not compute: the split may use any permutation of
\* a short column, and any of a family of strided rotations of a long one.
IsPermutation(f, n) == \A i, j \in 1..n : f[i] = f[j] => i = j
rng_permutation(n) ==
    IF n <= MaxRows
    THEN {f \in [1..n -> 0..(n - 1)] : IsPermutation(f, n)}
    ELSE {f \in {[i \in 1..n |-> (a * (i - 1) + b) % n] : a \in {1, 3, 7}, b \in {0, 17, 42}} :
             IsPermutation(f, n)}

InitTab ==
    /\ csv \in Columns
    /\ Category = csv
    /\ tpc = "loaded"
    /\ classes_ = <<>>
    /\ ind_train = <<>> /\ ind_test = <<>>
    /\ PipeOff
    /\ img = <<>> /\ out = <<>> /\ applied = "none"

\* data['Category'] = label_encoder.fit_transform(data['Category'])
Encode ==
    /\ tpc = "loaded"
    /\ classes_' = fit_transform(Category).classes
    /\ Category' = fit_transform(Category).codes
    /\ tpc' = "encoded"
    /\ UNCHANGED <<csv, ind_train, ind_test, pipeVars, preVars>>

\* X_train, X_test, y_train, y_test = train_test_split(X, y, test_size=0.2, random_state=42)
Split ==
    /\ tpc = "encoded"
    /\ LET n == Cardinality(Rows(Category))
       IN \E permutation \in rng_permutation(n) :
            /\ ind_test' = SubSeq(permutation, 1, n_test(n))
            /\ ind_train' = SubSeq(permutation, n_test(n) + 1, n_test(n) + n_train(n))
    /\ tpc' = "split"
    /\ UNCHANGED <<csv, Category, classes_, pipeVars, preVars>>

NextTab == Encode \/ Split
SpecTab == InitTab /\ [][NextTab]_vars

Range(seq) == {seq[i] : i \in DOMAIN seq}

\* C5: encoding replaces k distinct strings by exactly the integers 0..k-1,
\* equal strings by equal integers and distinct by distinct; the split's train
\* and test rows are disjoint and cover every row; 100 rows with 3 categories
\* give values in {0,1,2}, 80 train rows and 20 test rows.
C5_EncodingAndSplit ==
    /\ tpc \in {"encoded", "split"} =>
         /\ DOMAIN Category = DOMAIN csv
         /\ Distinct(Category) = 0..(Cardinality(Distinct(csv)) - 1)
         /\ \A i, j \in Rows(csv) : (csv[i] = csv[j]) <=> (Category[i] = Category[j])
    /\ tpc = "split" =>
         /\ Range(ind_train) \cap Range(ind_test) = {}
         /\ Range(ind_train) \cup Range(ind_test) = Rows(csv)
         /\ Len(ind_train) + Len(ind_test) = Cardinality(Rows(csv))
         /\ (Cardinality(Rows(csv)) = 100 /\ Cardinality(Distinct(csv)) = 3) =>
              /\ Distinct(Category) \subseteq {0, 1, 2}
              /\ Len(ind_train) = 80
              /\ Len(ind_test) = 20

C5_Witness ==
    /\ tpc = "split"
    /\ Cardinality(Rows(csv)) = 100
    /\ Distinct(Category) = {0, 1, 2}
    /\ Len(ind_train) = 80 /\ Len(ind_test) = 20
    /\ ind_test[1] # 0
====
